---- MODULE Spec2Model ----
(***************************************************************************)
(* A model of the CodeArena server: the Mongoose document methods of       *)
(* ProblemSet and Course, and the routes registered by registerRoutes.     *)
(***************************************************************************)
EXTENDS Integers, Sequences, FiniteSets, TLC

VARIABLES
    psHeap,            \* ProblemSet: the problem-instance objects, by reference
    problemInstances,  \* ProblemSet: this.problemInstances, an array of references
    totalProblems,     \* ProblemSet: this.totalProblems
    psCall,            \* ProblemSet: the last method call and how it ended
    enrollmentCount,   \* Course: this.enrollmentCount of the loaded document
    storedCount,       \* Course: enrollmentCount of the document in the store
    courseCall,        \* Course: the last method call and the count before it
    coursePrev,        \* Course: the call before the last one
    enrollments,       \* the ProblemSetEnrollment collection, in natural order
    problemSets,       \* the problemsets collection, in the order the query returns it
    hCall,             \* handlers: the handler that ran last and its inputs
    resps,             \* handlers: the responses it sent, in order
    calls,             \* handlers: the storage and model calls it made, in order
    req,               \* routing: the request being dispatched
    phase,             \* routing: "idle", "routing" or "done"
    pos,               \* routing: the layer of the app's stack the request is at
    route,             \* routing: the route of that layer taken, 0 when none yet
    chainPos,          \* routing: how many handlers of the route's chain have passed
    passed,            \* routing: the layers that were offered the request and passed
    events,            \* routing: what the handlers of the chain did, in order
    answeredBy,        \* routing: the layer that sent the response
    hpc,               \* concurrent handlers: where each handler is
    loaded,            \* concurrent handlers: the count in each handler's document
    startCount         \* concurrent handlers: the stored count before either began

psVars == <<psHeap, problemInstances, totalProblems, psCall>>
courseVars == <<enrollmentCount, storedCount, courseCall, coursePrev>>
handlerVars == <<enrollments, problemSets, hCall, resps, calls>>
routeVars == <<req, phase, pos, route, chainPos, passed, events, answeredBy>>
concVars == <<hpc, loaded, startCount>>
vars == <<psVars, courseVars, handlerVars, routeVars, concVars>>

(***************************************************************************)
(* Bounds                                                                  *)
(***************************************************************************)
MaxLen == 2        \* most entries of problemInstances, and of a newOrder argument
MaxCount == 20     \* largest enrollmentCount reached
MaxDocs == 2       \* most documents of the ProblemSetEnrollment collection
MaxSets == 2       \* most documents of the problemsets collection

(***************************************************************************)
(* ProblemSet (src/server/models/ProblemSet.ts)                            *)
(***************************************************************************)
Refs == 1..MaxLen                       \* references to problem-instance objects
OidStrings == <<"64a1", "64a2", "64a3", "64a4", "64a5">>
ObjectIdToString(o) == OidStrings[o]    \* mongoose.Types.ObjectId#toString
\* the id arguments tried ("64a9" names no instance)
IdArgs == {ObjectIdToString(o) : o \in Refs} \cup {"64a9"}
Pids == 1..MaxLen                       \* problemIds, of instances and in arguments
Now == 1                                \* the time `new Date()` and Date.now return
Times == {0, Now}                       \* 0 is a time before Now

NoCall == [op |-> "none", res |-> "ok", saves |-> 0]
NotFoundError == "Problem instance not found"   \* res of a call that threw this Error

\* Object.assign(target, source): source's own fields overwrite target's.
ObjectAssign(target, source) ==
    [k \in (DOMAIN target) \cup (DOMAIN source) |->
        IF k \in DOMAIN source THEN source[k] ELSE target[k]]

\* p._id?.toString()
IdString(p) == IF "_id" \in DOMAIN p THEN ObjectIdToString(p._id) ELSE "undefined"

\* Array.prototype.find: the first index at or after i whose test result in
\* `hits` (one Boolean per element) is true, 0 when there is none.
RECURSIVE FindFrom(_, _)
FindFrom(hits, i) ==
    IF i > Len(hits) THEN 0
    ELSE IF hits[i] THEN i
    ELSE FindFrom(hits, i + 1)

\* (p) => p._id?.toString() === id, on each element
IdHits(heap, insts, id) == [k \in 1..Len(insts) |-> IdString(heap[insts[k]]) = id]

\* (p) => p.problemId === problemId, on each element
PidHits(heap, insts, problemId) == [k \in 1..Len(insts) |-> heap[insts[k]].problemId = problemId]

RefsOf(insts) == {insts[i] : i \in 1..Len(insts)}

\* Objects no longer referenced by the array are dropped.
Collect(heap, insts) == [r \in (DOMAIN heap) \cap RefsOf(insts) |-> heap[r]]

FreshRef(heap) == CHOOSE r \in Refs : r \notin DOMAIN heap /\ \A q \in Refs : q < r => q \in DOMAIN heap

PSInit ==
    /\ psHeap = <<>>
    /\ problemInstances = <<>>
    /\ totalProblems = 0
    /\ psCall = NoCall

\* The instances a caller passes to addProblem (lastModified defaults to
\* Date.now, or is the caller's own).
NewInstances ==
    {[problemId |-> p, order |-> 1, lastModified |-> t] : p \in Pids, t \in Times}

addProblem(instance) ==
    /\ Len(problemInstances) < MaxLen
    /\ LET r == FreshRef(psHeap)
           insts == Append(problemInstances, r)
           \* the pushed subdocument gets an _id of its own
           doc == ObjectAssign(instance, [_id |-> r])
       IN /\ psHeap' = [q \in (DOMAIN psHeap) \cup {r} |-> IF q = r THEN doc ELSE psHeap[q]]
          /\ problemInstances' = insts
          /\ totalProblems' = Len(insts)
    /\ psCall' = [op |-> "addProblem", res |-> "ok", saves |-> 1]
    /\ UNCHANGED <<courseVars, handlerVars, routeVars, concVars>>

removeProblem(problemId) ==
    /\ LET insts == SelectSeq(problemInstances, LAMBDA r : psHeap[r].problemId # problemId)
       IN /\ problemInstances' = insts
          /\ totalProblems' = Len(insts)
          /\ psHeap' = Collect(psHeap, insts)
    /\ psCall' = [op |-> "removeProblem", res |-> "ok", saves |-> 1]
    /\ UNCHANGED <<courseVars, handlerVars, routeVars, concVars>>

\* The updates a caller passes: Partial<IProblemInstance>.
UpdatesArgs ==
    { <<>>,
      [lastModified |-> 0],
      [problemId |-> 2],
      [problemId |-> 2, lastModified |-> 0] }

\* A slip in the argument order: the caller's fields are applied last.
UpdatedInstanceUpdatesLast(instance, updates) ==
    ObjectAssign(ObjectAssign(instance, [lastModified |-> Now]), updates)

\* Object.assign(instance, updates, { lastModified: new Date() })
UpdatedInstance(instance, updates) ==
    ObjectAssign(ObjectAssign(instance, updates), [lastModified |-> Now])

updateProblemInstance(id, updates) ==
    LET i == FindFrom(IdHits(psHeap, problemInstances, id), 1)
    IN /\ IF i # 0
          THEN /\ psHeap' = [psHeap EXCEPT ![problemInstances[i]] =
                                UpdatedInstance(@, updates)]
               /\ psCall' = [op |-> "updateProblemInstance", res |-> "ok", saves |-> 1]
          ELSE /\ psHeap' = psHeap
               /\ psCall' = [op |-> "updateProblemInstance", res |-> NotFoundError, saves |-> 0]
       /\ UNCHANGED <<problemInstances, totalProblems, courseVars, handlerVars, routeVars, concVars>>

removeProblemInstance(id) ==
    /\ LET insts == SelectSeq(problemInstances, LAMBDA r : IdString(psHeap[r]) # id)
       IN /\ problemInstances' = insts
          /\ totalProblems' = Len(insts)
          /\ psHeap' = Collect(psHeap, insts)
    /\ psCall' = [op |-> "removeProblemInstance", res |-> "ok", saves |-> 1]
    /\ UNCHANGED <<courseVars, handlerVars, routeVars, concVars>>

\* An off-by-one slip: the 0-based index itself.
OrderAtZeroBased(index) == index

\* instance.order = index + 1
OrderAt(index) == index + 1

\* newOrder.map(...).filter(Boolean): walks newOrder from index `index` (0-based),
\* setting instance.order = index + 1 on each instance found and collecting it.
RECURSIVE ReorderMap(_, _, _, _)
ReorderMap(heap, insts, newOrder, index) ==
    IF index >= Len(newOrder) THEN [heap |-> heap, out |-> <<>>]
    ELSE LET i == FindFrom(PidHits(heap, insts, newOrder[index + 1]), 1)
             h == IF i # 0 THEN [heap EXCEPT ![insts[i]].order = OrderAt(index)] ELSE heap
             rest == ReorderMap(h, insts, newOrder, index + 1)
         IN [heap |-> rest.heap,
             out |-> IF i # 0 THEN <<insts[i]>> \o rest.out ELSE rest.out]

NewOrders == UNION {[1..n -> Pids] : n \in 0..MaxLen}

reorderProblems(newOrder) ==
    /\ LET m == ReorderMap(psHeap, problemInstances, newOrder, 0)
       IN /\ problemInstances' = m.out
          /\ psHeap' = Collect(m.heap, m.out)
    /\ psCall' = [op |-> "reorderProblems", res |-> "ok", saves |-> 1]
    /\ UNCHANGED <<totalProblems, courseVars, handlerVars, routeVars, concVars>>

PSNext ==
    \/ \E instance \in NewInstances : addProblem(instance)
    \/ \E problemId \in Pids : removeProblem(problemId)
    \/ \E id \in IdArgs, updates \in UpdatesArgs : updateProblemInstance(id, updates)
    \/ \E id \in IdArgs : removeProblemInstance(id)
    \/ \E newOrder \in NewOrders : reorderProblems(newOrder)

(***************************************************************************)
(* Course (src/server/models/Course.ts)                                    *)
(* A Number field is <<n>>, or <<>> when the document has no value for it. *)
(***************************************************************************)
Undefined == <<>>
Num(n) == <<n>>
IsSet(c) == c # Undefined
Val(c) == c[1]

\* c || 0
OrZero(c) == IF IsSet(c) /\ Val(c) # 0 THEN Val(c) ELSE 0

\* Math.max(a, b)
MathMax(a, b) == IF a >= b THEN a ELSE b

NoCourseCall == [op |-> "none", before |-> Undefined]

\* A course document as loaded: the schema default is 0 and the validator
\* admits no negative count; a document stored without the field has none.
CourseInit ==
    /\ enrollmentCount \in {Undefined} \cup {Num(n) : n \in 0..MaxCount}
    /\ storedCount = enrollmentCount
    /\ courseCall = NoCourseCall
    /\ coursePrev = NoCourseCall

\* A slip: the count is lowered without the floor at 0.
DecrementedNoFloor(c) == Num(OrZero(c) - 1)

\* Math.max(0, (this.enrollmentCount || 0) - 1)
Decremented(c) == Num(MathMax(0, OrZero(c) - 1))

\* A slip: an unset count is not treated as 0.
IncrementedNoDefault(c) == IF IsSet(c) THEN Num(Val(c) + 1) ELSE Undefined

\* (this.enrollmentCount || 0) + 1
Incremented(c) == Num(OrZero(c) + 1)

incrementEnrollment ==
    /\ OrZero(enrollmentCount) < MaxCount
    /\ enrollmentCount' = Incremented(enrollmentCount)
    /\ storedCount' = enrollmentCount'                      \* this.save()
    /\ courseCall' = [op |-> "incrementEnrollment", before |-> enrollmentCount]
    /\ coursePrev' = courseCall
    /\ UNCHANGED <<psVars, handlerVars, routeVars, concVars>>

decrementEnrollment ==
    /\ enrollmentCount' = Decremented(enrollmentCount)
    /\ storedCount' = enrollmentCount'                      \* this.save()
    /\ courseCall' = [op |-> "decrementEnrollment", before |-> enrollmentCount]
    /\ coursePrev' = courseCall
    /\ UNCHANGED <<psVars, handlerVars, routeVars, concVars>>

CourseNext == incrementEnrollment \/ decrementEnrollment

(***************************************************************************)
(* Two request handlers at work on the same stored course.  Each holds a   *)
(* document of its own: the copy the query gave it.  save() writes the     *)
(* changed path with the value of that copy; the schema sets no            *)
(* optimisticConcurrency and the version key guards array paths only.      *)
(***************************************************************************)
Handlers == {1, 2}

\* The handler's query returns: its document holds the stored count.
Load(h) ==
    /\ hpc[h] = "start"
    /\ loaded' = [loaded EXCEPT ![h] = storedCount]
    /\ hpc' = [hpc EXCEPT ![h] = "loaded"]
    /\ UNCHANGED <<startCount, courseVars, psVars, handlerVars, routeVars>>

\* this.enrollmentCount = (this.enrollmentCount || 0) + 1
IncrementInMemory(h) ==
    /\ hpc[h] = "loaded"
    /\ loaded' = [loaded EXCEPT ![h] = Incremented(loaded[h])]
    /\ hpc' = [hpc EXCEPT ![h] = "changed"]
    /\ UNCHANGED <<startCount, courseVars, psVars, handlerVars, routeVars>>

\* return await this.save(): the write reaches the store.
Save(h) ==
    /\ hpc[h] = "changed"
    /\ storedCount' = loaded[h]
    /\ hpc' = [hpc EXCEPT ![h] = "saved"]
    /\ UNCHANGED <<loaded, startCount, enrollmentCount, courseCall, coursePrev,
                   psVars, handlerVars, routeVars>>

ConcurrentNext == \E h \in Handlers : Load(h) \/ IncrementInMemory(h) \/ Save(h)

ConcurrentIdle ==
    /\ hpc = [h \in Handlers |-> "start"]
    /\ loaded = [h \in Handlers |-> Undefined]
    /\ startCount = Num(0)

\* The initial state of the part a specification leaves alone.
PSIdle ==
    /\ psHeap = <<>>
    /\ problemInstances = <<>>
    /\ totalProblems = 0
    /\ psCall = NoCall

CourseIdle ==
    /\ enrollmentCount = Num(0)
    /\ storedCount = Num(0)
    /\ courseCall = NoCourseCall
    /\ coursePrev = NoCourseCall



(***************************************************************************)
(* Strings: a JavaScript string is a TLA+ string; CharsOf gives its        *)
(* characters for the functions that look inside it.                       *)
(***************************************************************************)
CharsOf(s) ==
    CASE s = "7" -> <<"7">> []
          s = "12abc" -> <<"1", "2", "a", "b", "c">> []
          s = "abc" -> <<"a", "b", "c">> []
          s = "-7" -> <<"-", "7">> []
          s = "0x1f" -> <<"0", "x", "1", "f">> []
          s = " 8" -> <<" ", "8">> []
          s = "Enrollment not found" -> <<"E", "n", "r", "o", "l", "l", "m", "e", "n", "t", " ", "n", "o", "t", " ", "f", "o", "u", "n", "d">> []
          s = "Enrollment Not Found" -> <<"E", "n", "r", "o", "l", "l", "m", "e", "n", "t", " ", "N", "o", "t", " ", "F", "o", "u", "n", "d">> []
          s = "connection refused" -> <<"c", "o", "n", "n", "e", "c", "t", "i", "o", "n", " ", "r", "e", "f", "u", "s", "e", "d">> []
          s = "not found" -> <<"n", "o", "t", " ", "f", "o", "u", "n", "d">> []
          s = "" -> <<>>

DecDigits == <<"0", "1", "2", "3", "4", "5", "6", "7", "8", "9">>
HexDigits == DecDigits \o <<"a", "b", "c", "d", "e", "f">>

IsDigit(c, digits) == \E d \in 1..Len(digits) : digits[d] = c
DigitVal(c, digits) == (CHOOSE d \in 1..Len(digits) : digits[d] = c) - 1

NaN == [nan |-> TRUE, v |-> 0]
Finite(n) == [nan |-> FALSE, v |-> n]

\* Number.isNaN
NumberIsNaN(x) == x.nan

\* The value of the longest prefix of digits of cs from position i on, having
\* read acc so far; seen tells whether a digit was read.
RECURSIVE ParseDigits(_, _, _, _, _)
ParseDigits(cs, i, digits, acc, seen) ==
    IF i <= Len(cs) /\ IsDigit(cs[i], digits)
    THEN ParseDigits(cs, i + 1, digits, acc * Len(digits) + DigitVal(cs[i], digits), TRUE)
    ELSE IF seen THEN Finite(acc) ELSE NaN

RECURSIVE SkipSpaces(_, _)
SkipSpaces(cs, i) == IF i <= Len(cs) /\ cs[i] = " " THEN SkipSpaces(cs, i + 1) ELSE i

\* parseInt(string) with no radix: leading white space is skipped, a sign is
\* read, a 0x prefix selects base 16, and the longest prefix of digits gives
\* the value; NaN when there is no digit.
ParseInt(cs) ==
    LET i == SkipSpaces(cs, 1)
        neg == i <= Len(cs) /\ cs[i] = "-"
        j == IF i <= Len(cs) /\ cs[i] \in {"-", "+"} THEN i + 1 ELSE i
        hex == j + 1 <= Len(cs) /\ cs[j] = "0" /\ cs[j + 1] \in {"x", "X"}
        n == IF hex THEN ParseDigits(cs, j + 2, HexDigits, 0, FALSE)
                    ELSE ParseDigits(cs, j, DecDigits, 0, FALSE)
    IN IF n.nan THEN NaN ELSE Finite(IF neg THEN 0 - n.v ELSE n.v)

\* A slip: the parameter is accepted only when it is digits throughout
\* (Number(string) in place of parseInt(string)).
ParseIntStrict(cs) ==
    IF cs # <<>> /\ \A i \in 1..Len(cs) : IsDigit(cs[i], DecDigits)
    THEN ParseDigits(cs, 1, DecDigits, 0, FALSE)
    ELSE NaN

\* String.prototype.includes
Includes(cs, pat) ==
    \E i \in 0..(Len(cs) - Len(pat)) : SubSeq(cs, i + 1, i + Len(pat)) = pat

(***************************************************************************)
(* The handlers registered by registerRoutes (src/unnamed/part_000).       *)
(* A handler is an operator from its inputs (the request, and what the     *)
(* storage layer answers) to the responses it sends and the calls it makes.*)
(***************************************************************************)
Resp(status, body) == [status |-> status, body |-> body]
Message(m) == [message |-> m]

\* req.user: set by the authentication middleware, or absent
NoUser == [present |-> FALSE]
User(id, role) == [present |-> TRUE, id |-> id, role |-> role]
Users == {NoUser, User("", "user"), User("64b1", "user"), User("64b2", "admin")}

\* req.user?.id
UserIdOf(user) == IF user.present THEN <<user.id>> ELSE Undefined

\* !userId, for a string or undefined
IsFalsyString(x) == ~IsSet(x) \/ Val(x) = ""

\* What a storage call does: it returns, or throws an Error with a message.
Returned(value) == [threw |-> FALSE, value |-> value]
Threw(message) == [threw |-> TRUE, message |-> message]
ErrorMessages == {"Enrollment not found", "Enrollment Not Found", "connection refused", "not found", ""}

IdParams == {"7", "12abc", "abc", "-7", "0x1f", " 8"}   \* values of a :id path parameter

NoHCall == [handler |-> "none"]

\* A slip: the reset is not conditioned on the access check's answer.
ResetProgressHandlerNoAccessCheck(idParam, user, access, reset) ==
    LET courseId == ParseInt(CharsOf(idParam))
        userId == UserIdOf(user)
        isAdmin == user.present /\ user.role = "admin"
        accessCall == [fn |-> "canUserAccessCourse", args |-> <<courseId, userId, isAdmin>>]
        resetCall == [fn |-> "resetUserCourseProgress", args |-> <<userId, courseId>>]
        failed == Resp(500, Message("Failed to reset course progress"))
    IN IF IsFalsyString(userId)
       THEN [resps |-> <<Resp(401, Message("Unauthorized"))>>, calls |-> <<>>]
       ELSE IF access.threw
       THEN [resps |-> <<failed>>, calls |-> <<accessCall>>]
       ELSE IF reset.threw
       THEN [resps |-> <<failed>>, calls |-> <<accessCall, resetCall>>]
       ELSE [resps |-> <<Resp(200, [success |-> TRUE])>>, calls |-> <<accessCall, resetCall>>]

\* POST /api/courses/:id/reset-progress
ResetProgressHandler(idParam, user, access, reset) ==
    LET courseId == ParseInt(CharsOf(idParam))
        userId == UserIdOf(user)
        isAdmin == user.present /\ user.role = "admin"
        accessCall == [fn |-> "canUserAccessCourse", args |-> <<courseId, userId, isAdmin>>]
        resetCall == [fn |-> "resetUserCourseProgress", args |-> <<userId, courseId>>]
        failed == Resp(500, Message("Failed to reset course progress"))
    IN IF IsFalsyString(userId)
       THEN [resps |-> <<Resp(401, Message("Unauthorized"))>>, calls |-> <<>>]
       ELSE IF access.threw
       THEN [resps |-> <<failed>>, calls |-> <<accessCall>>]
       ELSE IF ~access.value
       THEN [resps |-> <<Resp(403, Message("Access denied"))>>, calls |-> <<accessCall>>]
       ELSE IF reset.threw
       THEN [resps |-> <<failed>>, calls |-> <<accessCall, resetCall>>]
       ELSE [resps |-> <<Resp(200, [success |-> TRUE])>>, calls |-> <<accessCall, resetCall>>]

\* A slip: the NaN check is missing, so storage is called with NaN.
DeleteEnrollmentHandlerNoNaNCheck(param, outcome) ==
    LET enrollmentId == ParseInt(CharsOf(param))
        deleteCall == [fn |-> "deleteProblemSetEnrollment", args |-> <<enrollmentId>>]
    IN IF ~outcome.threw
       THEN [resps |-> <<Resp(200, Message("Enrollment deleted"))>>, calls |-> <<deleteCall>>]
       ELSE IF outcome.message # "" /\ Includes(CharsOf(outcome.message), CharsOf("not found"))
       THEN [resps |-> <<Resp(404, Message("Enrollment not found"))>>, calls |-> <<deleteCall>>]
       ELSE [resps |-> <<Resp(500, Message("Failed to delete enrollment"))>>, calls |-> <<deleteCall>>]

\* DELETE /api/problem-set-enrollments/:enrollmentId
DeleteEnrollmentHandler(param, outcome) ==
    LET enrollmentId == ParseInt(CharsOf(param))
        deleteCall == [fn |-> "deleteProblemSetEnrollment", args |-> <<enrollmentId>>]
    IN IF NumberIsNaN(enrollmentId)
       THEN [resps |-> <<Resp(400, Message("Invalid enrollment id"))>>, calls |-> <<>>]
       ELSE IF ~outcome.threw
       THEN [resps |-> <<Resp(200, Message("Enrollment deleted"))>>, calls |-> <<deleteCall>>]
       ELSE IF outcome.message # "" /\ Includes(CharsOf(outcome.message), CharsOf("not found"))
       THEN [resps |-> <<Resp(404, Message("Enrollment not found"))>>, calls |-> <<deleteCall>>]
       ELSE [resps |-> <<Resp(500, Message("Failed to delete enrollment"))>>, calls |-> <<deleteCall>>]

\* The request bodies tried: fields to set on an enrollment.
Bodies ==
    { <<>>,
      [status |-> "done"],
      [updatedAt |-> 0],
      [status |-> "done", updatedAt |-> 0] }

\* A slip: the body is spread last, so its updatedAt wins.
PatchUpdateBodyLast(body) == ObjectAssign([updatedAt |-> Now], body)

\* { ..._req.body, updatedAt: new Date() }
PatchUpdate(body) == ObjectAssign(body, [updatedAt |-> Now])

\* (doc) => doc.id === id, on each document: the filter { id: enrollmentId }
DocIdHits(docs, id) == [k \in 1..Len(docs) |-> docs[k].id = id]

\* PATCH /api/problem-set-enrollments/:enrollmentId
\* findOneAndUpdate({ id }, { $set: update }, { new: true }) sets the fields on
\* the first document matching, and yields it as updated, or null.
PatchEnrollmentHandler(param, body, outcome, docs) ==
    LET enrollmentId == ParseInt(CharsOf(param))
        update == PatchUpdate(body)
        findCall == [fn |-> "findOneAndUpdate", args |-> <<enrollmentId, update>>]
        i == FindFrom(DocIdHits(docs, enrollmentId.v), 1)
        updated == ObjectAssign(docs[i], update)
    IN IF NumberIsNaN(enrollmentId)
       THEN [resps |-> <<Resp(400, Message("Invalid enrollment id"))>>, calls |-> <<>>,
             docs |-> docs]
       ELSE IF outcome.threw
       THEN [resps |-> <<Resp(500, Message("Failed to update enrollment"))>>,
             calls |-> <<findCall>>, docs |-> docs]
       ELSE IF i = 0
       THEN [resps |-> <<Resp(404, Message("Enrollment not found"))>>, calls |-> <<findCall>>,
             docs |-> docs]
       ELSE [resps |-> <<Resp(200, updated)>>, calls |-> <<findCall>>,
             docs |-> [docs EXCEPT ![i] = updated]]

resetProgress(idParam, user, access, reset) ==
    LET r == ResetProgressHandler(idParam, user, access, reset)
    IN /\ resps' = r.resps
       /\ calls' = r.calls
       /\ hCall' = [handler |-> "resetProgress", idParam |-> idParam, user |-> user,
                    access |-> access, reset |-> reset]
       /\ UNCHANGED <<enrollments, problemSets, psVars, courseVars, routeVars, concVars>>

deleteEnrollment(param, outcome) ==
    LET r == DeleteEnrollmentHandler(param, outcome)
    IN /\ resps' = r.resps
       /\ calls' = r.calls
       /\ hCall' = [handler |-> "deleteEnrollment", param |-> param, outcome |-> outcome]
       /\ UNCHANGED <<enrollments, problemSets, psVars, courseVars, routeVars, concVars>>

patchEnrollment(param, body, outcome) ==
    LET r == PatchEnrollmentHandler(param, body, outcome, enrollments)
    IN /\ resps' = r.resps
       /\ calls' = r.calls
       /\ enrollments' = r.docs
       /\ hCall' = [handler |-> "patchEnrollment", param |-> param, body |-> body,
                    outcome |-> outcome]
       /\ UNCHANGED <<problemSets, psVars, courseVars, routeVars, concVars>>

EnrollmentIds == {7, 12, 31}
EnrollmentDocs == {[id |-> i, status |-> "active", updatedAt |-> 0] : i \in EnrollmentIds}

\* Collections of at most MaxDocs documents with pairwise distinct ids.
EnrollmentCollections ==
    {docs \in UNION {[1..n -> EnrollmentDocs] : n \in 0..MaxDocs} :
        \A i, j \in 1..Len(docs) : docs[i].id = docs[j].id => i = j}

RoutesIdle ==
    /\ req = [method |-> "GET", path |-> <<>>, user |-> NoUser]
    /\ phase = "idle"
    /\ pos = 1
    /\ route = 0
    /\ chainPos = 0
    /\ passed = {}
    /\ events = <<>>
    /\ answeredBy = <<"none">>

HandlersIdle ==
    /\ enrollments = <<>>
    /\ problemSets = <<>>
    /\ hCall = NoHCall
    /\ resps = <<>>
    /\ calls = <<>>

InitHandlers ==
    /\ enrollments \in EnrollmentCollections
    /\ problemSets = <<>>
    /\ RoutesIdle
    /\ ConcurrentIdle
    /\ hCall = NoHCall
    /\ resps = <<>>
    /\ calls = <<>>
    /\ PSIdle
    /\ CourseIdle

HandlersNext ==
    \/ \E idParam \in {"7", "abc"}, user \in Users,
          access \in {Returned(TRUE), Returned(FALSE), Threw("connection refused")},
          reset \in {Returned(TRUE), Threw("connection refused")} :
            resetProgress(idParam, user, access, reset)
    \/ \E param \in IdParams, outcome \in {Returned(TRUE)} \cup {Threw(m) : m \in ErrorMessages} :
            deleteEnrollment(param, outcome)
    \/ \E param \in IdParams, body \in Bodies,
          outcome \in {Returned(TRUE), Threw("connection refused")} :
            patchEnrollment(param, body, outcome)

SpecHandlers == InitHandlers /\ [][HandlersNext]_vars

(***************************************************************************)
(* GET /api/problem-sets-with-enrollment (src/unnamed/part_000, 66-140)    *)
(* Field values carry their JavaScript type.                               *)
(***************************************************************************)
StrV(s) == [t |-> "string", v |-> s]
OidV(hex) == [t |-> "ObjectId", v |-> hex]
NumV(n) == [t |-> "number", v |-> n]
UndefV == [t |-> "undefined"]

NumStrings == <<"1", "2", "3">>

\* String(x)
String(x) ==
    CASE x.t = "string" -> x.v
      [] x.t = "ObjectId" -> x.v
      [] x.t = "number" -> NumStrings[x.v]
      [] x.t = "undefined" -> "undefined"

\* a || b
OrElse(a, b) ==
    IF a.t = "undefined" \/ (a.t = "string" /\ a.v = "") \/ (a.t = "number" /\ a.v = 0)
    THEN b ELSE a

\* new ObjectId(s) throws unless s is a 24-digit hex string; of the user ids
\* tried, those written as hex stand for such strings.
ValidObjectIdStrings == {"64b1", "64b2", "64b3"}

Elements(seq) == {seq[k] : k \in 1..Len(seq)}

\* A slip: only the ProblemSetEnrollment records count.
CombinedEnrollmentIdsRecordsOnly(enrollmentIds, participantIds) == enrollmentIds

\* [...enrollmentIds, ...participantIds]
CombinedEnrollmentIds(enrollmentIds, participantIds) == enrollmentIds \o participantIds

\* The entry the handler returns for problem set ps.
MappedEntry(ps, userEnrollments) ==
    ObjectAssign(ps,
        [problems |-> <<>>, tags |-> <<>>, totalProblems |-> 0,
         isEnrolled |-> String(ps.id) \in userEnrollments
                          \/ String(ps._id) \in userEnrollments])

ProblemSetsWithEnrollmentHandler(user, all, enrollmentDocs) ==
    LET userId == UserIdOf(user)
        findAll == [fn |-> "ProblemSet.find", args |-> <<>>]
        findEnrollments == [fn |-> "ProblemSetEnrollment.find", args |-> <<userId>>]
        findParticipants == [fn |-> "problemsets.find", args |-> <<userId>>]
        found == SelectSeq(enrollmentDocs, LAMBDA e : e.userId = Val(userId))
        enrollmentIds == [k \in 1..Len(found) |-> String(found[k].problemSetId)]
        withUser == SelectSeq(all, LAMBDA ps :
                        StrV(Val(userId)) \in Elements(ps.participants)
                          \/ OidV(Val(userId)) \in Elements(ps.participants))
        participantIds == [k \in 1..Len(withUser) |-> String(OrElse(withUser[k].id, withUser[k]._id))]
        userEnrollments == Elements(CombinedEnrollmentIds(enrollmentIds, participantIds))
        failed == Resp(500, Message("Failed to fetch problem sets"))
    IN IF IsFalsyString(userId)
       THEN [resps |-> <<Resp(200, [k \in 1..Len(all) |-> MappedEntry(all[k], {})])>>,
             calls |-> <<findAll>>]
       ELSE IF Val(userId) \notin ValidObjectIdStrings
       THEN [resps |-> <<failed>>, calls |-> <<findAll, findEnrollments>>]
       ELSE [resps |-> <<Resp(200, [k \in 1..Len(all) |-> MappedEntry(all[k], userEnrollments)])>>,
             calls |-> <<findAll, findEnrollments, findParticipants>>]

problemSetsWithEnrollment(user) ==
    LET r == ProblemSetsWithEnrollmentHandler(user, problemSets, enrollments)
    IN /\ resps' = r.resps
       /\ calls' = r.calls
       /\ hCall' = [handler |-> "problemSetsWithEnrollment", user |-> user]
       /\ UNCHANGED <<enrollments, problemSets, psVars, courseVars, routeVars, concVars>>

\* The problem set documents tried; the k-th stored has _id SetOids[k].
SetOids == <<"64a1", "64a2", "64a3", "64a4">>
SetIds == {UndefV, StrV("1"), StrV("ps2")}
ParticipantLists == {<<>>, <<StrV("64b1")>>, <<OidV("64b1")>>, <<StrV("64b3"), StrV("64b2")>>}

\* The documents ProblemSet.find({}).sort({ createdAt: -1 }) returns, in that order.
ProblemSetCollections ==
    UNION {{[k \in 1..n |-> [_id |-> OidV(SetOids[k]), id |-> ids[k], participants |-> parts[k]]] :
              ids \in [1..n -> SetIds], parts \in [1..n -> ParticipantLists]} : n \in 0..MaxSets}

EnrollmentRecords ==
    {[userId |-> u, problemSetId |-> p] :
        u \in {"64b1", "64b3"}, p \in {NumV(1), OidV("64a1")}}

EnrollmentRecordCollections == UNION {[1..n -> EnrollmentRecords] : n \in 0..MaxDocs}

EnrollmentUsers == {NoUser, User("64b1", "user"), User("u-7", "user"), User("64b2", "user")}

InitEnrollment ==
    /\ problemSets \in ProblemSetCollections
    /\ RoutesIdle
    /\ ConcurrentIdle
    /\ enrollments \in EnrollmentRecordCollections
    /\ hCall = NoHCall
    /\ resps = <<>>
    /\ calls = <<>>
    /\ PSIdle
    /\ CourseIdle

EnrollmentNext == \E user \in EnrollmentUsers : problemSetsWithEnrollment(user)

SpecEnrollment == InitEnrollment /\ [][EnrollmentNext]_vars

(***************************************************************************)
(* Routing: the layers registerRoutes registers on the app, in order, and  *)
(* Express's dispatch of one request through them.                         *)
(***************************************************************************)
\* A mounted router whose routes are not part of this model: offered a
\* request under its mount path, it answers or passes the request on.
Opaque(mount) == [name |-> mount, kind |-> "opaque", mount |-> mount, routes |-> <<>>]

\* A route: a method, a path relative to the mount (a segment starting with
\* ":" is a parameter) and the chain of handlers given for it.
Route(method, path, chain) == [method |-> method, path |-> path, chain |-> chain]

\* router.get('/', protect, listSubmissions) etc. (src/server/routes/submissions.ts)
SubmissionsRoutes ==
    << Route("GET", <<>>, <<"protect", "listSubmissions">>),
       Route("POST", <<>>, <<"protect", "createSubmission">>),
       Route("DELETE", <<":id">>, <<"protect", "deleteSubmission">>) >>

\* A slip: the middleware of the enrollment routes in the opposite order.
EnrollmentGuardsAdminFirst == <<"requireAdmin", "protect">>

\* protect as any, requireAdmin as any
EnrollmentGuards == <<"protect", "requireAdmin">>

EnrollmentPath == <<"api", "problem-set-enrollments", ":enrollmentId">>

\* app.use(mount, router) and app.METHOD(path, ...) before the fallback
EarlierLayers ==
    << Opaque(<<"maintenance">>),
       Opaque(<<"api", "admin", "problem-sets">>),
       Opaque(<<"api", "admin", "assignments">>),
       Opaque(<<"api", "admin", "version-history">>),
       Opaque(<<"api", "admin", "contests">>),
       Opaque(<<"api", "admin">>),
       Opaque(<<"api", "analytics">>),
       Opaque(<<"api", "problem-sets">>),
       Opaque(<<"api", "problems">>),
       [name |-> <<"api", "submissions">>, kind |-> "routes", mount |-> <<"api", "submissions">>,
        routes |-> SubmissionsRoutes],
       Opaque(<<"api", "courses">>),
       Opaque(<<"api", "modules">>),
       Opaque(<<"api", "users">>),
       Opaque(<<"api", "assignments">>),
       Opaque(<<"api", "contests">>),
       [name |-> <<"POST reset-progress">>, kind |-> "routes", mount |-> <<>>,
        routes |-> <<Route("POST", <<"api", "courses", ":id", "reset-progress">>,
                           <<"protect", "resetProgress">>)>>],
       [name |-> <<"GET problem-sets-with-enrollment">>, kind |-> "routes", mount |-> <<>>,
        routes |-> <<Route("GET", <<"api", "problem-sets-with-enrollment">>,
                           <<"protect", "problemSetsWithEnrollment">>)>>],
       [name |-> <<"DELETE problem-set-enrollments">>, kind |-> "routes", mount |-> <<>>,
        routes |-> <<Route("DELETE", EnrollmentPath,
                           EnrollmentGuards \o <<"deleteEnrollment">>)>>],
       [name |-> <<"PATCH problem-set-enrollments">>, kind |-> "routes", mount |-> <<>>,
        routes |-> <<Route("PATCH", EnrollmentPath,
                           EnrollmentGuards \o <<"patchEnrollment">>)>>] >>

\* app.use('/api', (_req, res) => res.status(404).json({ message: 'Not Found' }))
FallbackLayer ==
    [name |-> <<"fallback">>, kind |-> "use", mount |-> <<"api">>,
     routes |-> <<Route("*", <<"*">>, <<"notFound">>)>>]

\* A slip: the fallback is registered before the other routes.
LayersFallbackFirst == <<FallbackLayer>> \o EarlierLayers

\* The app's stack after registerRoutes.
Layers == EarlierLayers \o <<FallbackLayer>>

Middlewares == {"protect", "requireAdmin"}
SubmissionControllers == {"listSubmissions", "createSubmission", "deleteSubmission"}

\* setupMaintenanceRoutes(app) registers routes of its own, on paths unknown
\* here: the layer named maintenance stands for them, under any path.
MountMatches(layer, path) ==
    \/ layer.mount = <<"maintenance">>
    \/ /\ Len(layer.mount) <= Len(path)
       /\ \A i \in 1..Len(layer.mount) : layer.mount[i] = path[i]

IsParam(segment) == segment \in {":id", ":enrollmentId"}

\* Whether a route of a layer takes the request: the method, and the path
\* after the mount, segment by segment.
RouteMatches(layer, r, method, path) ==
    \/ r.method = "*"
    \/ /\ r.method = method
       /\ Len(path) = Len(layer.mount) + Len(r.path)
       /\ \A i \in 1..Len(r.path) :
             IsParam(r.path[i]) \/ r.path[i] = path[Len(layer.mount) + i]

RouteHits(layer, method, path) ==
    [k \in 1..Len(layer.routes) |-> RouteMatches(layer, layer.routes[k], method, path)]

\* The first route of the layer that takes the request, 0 when none does.
MatchRoute(layer, method, path) == FindFrom(RouteHits(layer, method, path), 1)

Methods == {"GET", "POST", "DELETE", "PATCH"}
Paths ==
    { <<"api">>, <<"api", "nowhere">>,
      <<"api", "submissions">>, <<"api", "submissions", "7">>, <<"api", "submissions", "7", "x">>,
      <<"api", "courses", "7", "reset-progress">>,
      <<"api", "problem-sets-with-enrollment">>,
      <<"api", "problem-set-enrollments", "7">>, <<"api", "problem-set-enrollments", "abc">>,
      <<"api", "admin", "contests", "7">>,
      <<"health">> }

Event(h, did) == [h |-> h, did |-> did]

InRoute == phase = "routing" /\ pos <= Len(Layers) /\ route # 0
AtLayer == phase = "routing" /\ pos <= Len(Layers) /\ route = 0
NextHandler == Layers[pos].routes[route].chain[chainPos + 1]

\* The response ends the request.
Answer(by, r) ==
    /\ phase' = "done"
    /\ answeredBy' = by
    /\ resps' = r.resps
    /\ calls' = r.calls

Receive(method, path) ==
    /\ phase \in {"idle", "done"}
    /\ req' = [method |-> method, path |-> path, user |-> NoUser]
    /\ phase' = "routing"
    /\ pos' = 1
    /\ route' = 0
    /\ chainPos' = 0
    /\ passed' = {}
    /\ events' = <<>>
    /\ answeredBy' = <<"none">>
    /\ resps' = <<>>
    /\ calls' = <<>>
    /\ hCall' = NoHCall
    /\ UNCHANGED <<enrollments, problemSets, psVars, courseVars, concVars>>

\* The layer's path does not match: the next layer is tried.
SkipLayer ==
    /\ AtLayer
    /\ ~MountMatches(Layers[pos], req.path)
    /\ pos' = pos + 1
    /\ UNCHANGED <<req, phase, route, chainPos, passed, events, answeredBy,
                   handlerVars, psVars, courseVars, concVars>>

\* A router none of whose routes takes the request passes it on.
LayerPasses ==
    /\ AtLayer
    /\ Layers[pos].kind \in {"routes", "use"}
    /\ MountMatches(Layers[pos], req.path)
    /\ MatchRoute(Layers[pos], req.method, req.path) = 0
    /\ passed' = passed \cup {Layers[pos].name}
    /\ pos' = pos + 1
    /\ UNCHANGED <<req, phase, route, chainPos, events, answeredBy,
                   handlerVars, psVars, courseVars, concVars>>

EnterRoute ==
    /\ AtLayer
    /\ Layers[pos].kind \in {"routes", "use"}
    /\ MountMatches(Layers[pos], req.path)
    /\ MatchRoute(Layers[pos], req.method, req.path) # 0
    /\ route' = MatchRoute(Layers[pos], req.method, req.path)
    /\ chainPos' = 0
    /\ UNCHANGED <<req, phase, pos, passed, events, answeredBy,
                   handlerVars, psVars, courseVars, concVars>>

OpaqueAnswers(status) ==
    /\ AtLayer
    /\ Layers[pos].kind = "opaque"
    /\ MountMatches(Layers[pos], req.path)
    /\ Answer(Layers[pos].name, [resps |-> <<Resp(status, [from |-> Layers[pos].name])>>,
                                 calls |-> <<>>])
    /\ UNCHANGED <<req, pos, route, chainPos, passed, events, enrollments, problemSets,
                   hCall, psVars, courseVars, concVars>>

OpaquePasses ==
    /\ AtLayer
    /\ Layers[pos].kind = "opaque"
    /\ MountMatches(Layers[pos], req.path)
    /\ passed' = passed \cup {Layers[pos].name}
    /\ pos' = pos + 1
    /\ UNCHANGED <<req, phase, route, chainPos, events, answeredBy,
                   handlerVars, psVars, courseVars, concVars>>

\* A middleware calls next(); protect has set req.user (whatever it found).
MiddlewareNext(user) ==
    /\ InRoute
    /\ NextHandler \in Middlewares
    /\ req' = IF NextHandler = "protect" THEN [req EXCEPT !.user = user] ELSE req
    /\ events' = Append(events, Event(NextHandler, "next"))
    /\ chainPos' = chainPos + 1
    /\ UNCHANGED <<phase, pos, route, passed, answeredBy, handlerVars, psVars, courseVars, concVars>>

\* A middleware answers the request itself and does not call next().
MiddlewareStops ==
    /\ InRoute
    /\ NextHandler \in Middlewares
    /\ events' = Append(events, Event(NextHandler, "sent"))
    /\ Answer(Layers[pos].name,
              [resps |-> <<Resp(IF NextHandler = "protect" THEN 401 ELSE 403,
                                [from |-> <<NextHandler>>])>>,
               calls |-> <<>>])
    /\ UNCHANGED <<req, pos, route, chainPos, passed, enrollments, problemSets,
                   hCall, psVars, courseVars, concVars>>

\* The body of a handler runs and answers.
RunBody(h, r) ==
    /\ InRoute
    /\ NextHandler = h
    /\ events' = Append(events, Event(h, "body"))
    /\ Answer(Layers[pos].name, r)
    /\ UNCHANGED <<req, pos, route, chainPos, passed, psVars, courseVars, concVars>>

\* The controllers of submissionsController.js: each answers, after calls to
\* the storage that are its own.
RunSubmissionController(status) ==
    /\ InRoute
    /\ NextHandler \in SubmissionControllers
    /\ RunBody(NextHandler, [resps |-> <<Resp(status, [from |-> <<NextHandler>>])>>,
                             calls |-> <<[fn |-> NextHandler, args |-> <<>>]>>])
    /\ hCall' = [handler |-> NextHandler]
    /\ UNCHANGED <<enrollments, problemSets>>

RunResetProgress(access, reset) ==
    /\ RunBody("resetProgress", ResetProgressHandler(req.path[3], req.user, access, reset))
    /\ hCall' = [handler |-> "resetProgress", idParam |-> req.path[3], user |-> req.user,
                 access |-> access, reset |-> reset]
    /\ UNCHANGED <<enrollments, problemSets>>

RunProblemSetsWithEnrollment ==
    /\ RunBody("problemSetsWithEnrollment",
               ProblemSetsWithEnrollmentHandler(req.user, problemSets, enrollments))
    /\ hCall' = [handler |-> "problemSetsWithEnrollment", user |-> req.user]
    /\ UNCHANGED <<enrollments, problemSets>>

RunDeleteEnrollment(outcome) ==
    /\ RunBody("deleteEnrollment", DeleteEnrollmentHandler(req.path[3], outcome))
    /\ hCall' = [handler |-> "deleteEnrollment", param |-> req.path[3], outcome |-> outcome]
    /\ UNCHANGED <<enrollments, problemSets>>

RunPatchEnrollment(body, outcome) ==
    /\ LET r == PatchEnrollmentHandler(req.path[3], body, outcome, enrollments)
       IN /\ RunBody("patchEnrollment", r)
          /\ enrollments' = r.docs
    /\ hCall' = [handler |-> "patchEnrollment", param |-> req.path[3], body |-> body,
                 outcome |-> outcome]
    /\ UNCHANGED problemSets

RunNotFound ==
    /\ RunBody("notFound", [resps |-> <<Resp(404, Message("Not Found"))>>, calls |-> <<>>])
    /\ hCall' = [handler |-> "notFound"]
    /\ UNCHANGED <<enrollments, problemSets>>

\* No layer is left: Express's own final handler answers 404 with a page.
FinalHandler ==
    /\ phase = "routing"
    /\ pos > Len(Layers)
    /\ Answer(<<"express">>, [resps |-> <<Resp(404, [html |-> TRUE])>>, calls |-> <<>>])
    /\ UNCHANGED <<req, pos, route, chainPos, passed, events, enrollments, problemSets,
                   hCall, psVars, courseVars, concVars>>

InitRoutes ==
    /\ RoutesIdle
    /\ ConcurrentIdle
    /\ enrollments = <<[id |-> 7, userId |-> "64b1", problemSetId |-> NumV(1),
                        status |-> "active", updatedAt |-> 0]>>
    /\ problemSets = <<[_id |-> OidV("64a1"), id |-> StrV("1"), participants |-> <<>>]>>
    /\ hCall = NoHCall
    /\ resps = <<>>
    /\ calls = <<>>
    /\ PSIdle
    /\ CourseIdle

OpaqueStatuses == {200, 404}

RoutesNext ==
    \/ \E method \in Methods, path \in Paths : Receive(method, path)
    \/ SkipLayer
    \/ LayerPasses
    \/ EnterRoute
    \/ \E status \in OpaqueStatuses : OpaqueAnswers(status)
    \/ OpaquePasses
    \/ \E user \in {NoUser, User("64b1", "user"), User("64b2", "admin")} : MiddlewareNext(user)
    \/ MiddlewareStops
    \/ \E status \in OpaqueStatuses : RunSubmissionController(status)
    \/ \E access \in {Returned(TRUE), Returned(FALSE), Threw("connection refused")},
          reset \in {Returned(TRUE), Threw("connection refused")} :
            RunResetProgress(access, reset)
    \/ RunProblemSetsWithEnrollment
    \/ \E outcome \in {Returned(TRUE), Threw("Enrollment not found"), Threw("connection refused")} :
            RunDeleteEnrollment(outcome)
    \/ \E body \in {[status |-> "done"], [updatedAt |-> 0]},
          outcome \in {Returned(TRUE), Threw("connection refused")} :
            RunPatchEnrollment(body, outcome)
    \/ RunNotFound
    \/ FinalHandler

SpecRoutes == InitRoutes /\ [][RoutesNext]_vars

InitPS == PSInit /\ CourseIdle /\ HandlersIdle /\ RoutesIdle /\ ConcurrentIdle
InitCourse == CourseInit /\ PSIdle /\ HandlersIdle /\ RoutesIdle /\ ConcurrentIdle

SpecPS == InitPS /\ [][PSNext]_vars
SpecCourse == InitCourse /\ [][CourseNext]_vars

\* Both handlers are about to load a course stored with any admissible count.
InitConcurrent ==
    /\ storedCount \in {Undefined} \cup {Num(n) : n \in 0..MaxCount}
    /\ startCount = storedCount
    /\ hpc = [h \in Handlers |-> "start"]
    /\ loaded = [h \in Handlers |-> Undefined]
    /\ enrollmentCount = Num(0)
    /\ courseCall = NoCourseCall
    /\ coursePrev = NoCourseCall
    /\ PSIdle
    /\ HandlersIdle
    /\ RoutesIdle

SpecConcurrent == InitConcurrent /\ [][ConcurrentNext]_vars

(***************************************************************************)
(* Claims about ProblemSet                                                 *)
(***************************************************************************)
Indices(insts) == 1..Len(insts)

\* C8: totalProblems equals the number of problemInstances after any sequence
\* of addProblem, removeProblem, removeProblemInstance, updateProblemInstance
\* and reorderProblems calls.
C8_TotalProblemsIsLength == totalProblems = Len(problemInstances)

\* The instances have pairwise distinct problemIds and newOrder is a
\* permutation of exactly those problemIds.
PidsOf(heap, insts) == {heap[insts[i]].problemId : i \in Indices(insts)}

IsPermutationOfPids(heap, insts, newOrder) ==
    /\ \A i, j \in Indices(insts) :
          heap[insts[i]].problemId = heap[insts[j]].problemId => i = j
    /\ Len(newOrder) = Len(insts)
    /\ \A i, j \in Indices(newOrder) : newOrder[i] = newOrder[j] => i = j
    /\ {newOrder[i] : i \in Indices(newOrder)} = PidsOf(heap, insts)

\* C9: when the instances have pairwise distinct problemIds and newOrder is a
\* permutation of them, reorderProblems(newOrder) keeps the same set of
\* instances, puts the instance with problemId newOrder[i] at position i with
\* order i (1-based, i.e. index + 1), and changes no other field.
C9_ReorderPermutation ==
    [][ (/\ psCall'.op = "reorderProblems"
         /\ Cardinality(PidsOf(psHeap, problemInstances)) = Len(problemInstances)) =>
        \A newOrder \in [Indices(problemInstances) -> PidsOf(psHeap, problemInstances)] :
          (/\ IsPermutationOfPids(psHeap, problemInstances, newOrder)
           /\ reorderProblems(newOrder))
          => /\ RefsOf(problemInstances') = RefsOf(problemInstances)
             /\ Len(problemInstances') = Len(problemInstances)
             /\ DOMAIN psHeap' = DOMAIN psHeap
             /\ \A i \in Indices(newOrder) :
                   /\ psHeap'[problemInstances'[i]].problemId = newOrder[i]
                   /\ psHeap'[problemInstances'[i]].order = i
             /\ \A r \in DOMAIN psHeap :
                   /\ DOMAIN psHeap'[r] = DOMAIN psHeap[r]
                   /\ \A k \in DOMAIN psHeap[r] \ {"order"} : psHeap'[r][k] = psHeap[r][k]
      ]_vars

\* A reorder has left MaxLen instances of distinct problemIds in an order other
\* than that of their problemIds, numbered 1..MaxLen.
C9_Witness ==
    /\ psCall.op = "reorderProblems"
    /\ Len(problemInstances) >= 2
    /\ IsPermutationOfPids(psHeap, problemInstances,
                           [i \in Indices(problemInstances) |-> psHeap[problemInstances[i]].problemId])
    /\ psHeap[problemInstances[1]].problemId > psHeap[problemInstances[2]].problemId
    /\ \A i \in Indices(problemInstances) : psHeap[problemInstances[i]].order = i

\* C10: updateProblemInstance(id, updates) with no instance whose _id string
\* is id throws 'Problem instance not found', saves nothing and changes
\* nothing; otherwise exactly one instance object, one whose _id string is id,
\* is modified, its lastModified becomes the current time whatever updates
\* says, the array and totalProblems are unchanged and save is called once.
C10_UpdateInstance ==
    [][ psCall'.op = "updateProblemInstance" => \A id \in IdArgs, updates \in UpdatesArgs :
          updateProblemInstance(id, updates)
          => LET hits == {r \in RefsOf(problemInstances) : IdString(psHeap[r]) = id}
             IN IF hits = {}
                THEN /\ psCall'.res = NotFoundError
                     /\ psCall'.saves = 0
                     /\ UNCHANGED <<psHeap, problemInstances, totalProblems>>
                ELSE /\ psCall'.res = "ok"
                     /\ psCall'.saves = 1
                     /\ UNCHANGED <<problemInstances, totalProblems>>
                     /\ DOMAIN psHeap' = DOMAIN psHeap
                     /\ \E r \in hits :
                           /\ psHeap'[r].lastModified = Now
                           /\ \A k \in DOMAIN psHeap[r] \ (DOMAIN updates \cup {"lastModified"}) :
                                 psHeap'[r][k] = psHeap[r][k]
                           /\ \A q \in DOMAIN psHeap \ {r} : psHeap'[q] = psHeap[q]
      ]_vars

\* An update has succeeded on one of two instances: the updated one carries
\* the current time, the other still an earlier one.
C10_Witness ==
    /\ psCall.op = "updateProblemInstance"
    /\ psCall.res = "ok"
    /\ Len(problemInstances) = 2
    /\ \E r, q \in DOMAIN psHeap :
          /\ r # q
          /\ psHeap[r].lastModified = Now
          /\ psHeap[q].lastModified < Now

\* An update naming no instance has thrown, with instances present.
C10_WitnessNotFound ==
    /\ psCall.op = "updateProblemInstance"
    /\ psCall.res = NotFoundError
    /\ Len(problemInstances) >= 1

(***************************************************************************)
(* Claims about Course                                                     *)
(***************************************************************************)
\* C7: starting from a non-negative or unset enrollmentCount, the count is
\* never negative; incrementEnrollment raises it by exactly 1 (unset counts as
\* 0), decrementEnrollment lowers it by exactly 1 when positive and leaves 0
\* when it is 0 or unset; so decrement followed by increment restores the
\* count only when it was positive.
C7_EnrollmentCount ==
    /\ IsSet(enrollmentCount) => Val(enrollmentCount) >= 0
    /\ courseCall.op = "incrementEnrollment" =>
          enrollmentCount = Num(IF IsSet(courseCall.before) THEN Val(courseCall.before) + 1 ELSE 1)
    /\ courseCall.op = "decrementEnrollment" =>
          enrollmentCount = Num(IF IsSet(courseCall.before) /\ Val(courseCall.before) > 0
                                THEN Val(courseCall.before) - 1 ELSE 0)
    /\ (coursePrev.op = "decrementEnrollment" /\ courseCall.op = "incrementEnrollment") =>
          (enrollmentCount = coursePrev.before
             <=> (IsSet(coursePrev.before) /\ Val(coursePrev.before) > 0))

\* A decrement at 0 followed by an increment has left the count at 1.
C7_Witness ==
    /\ coursePrev = [op |-> "decrementEnrollment", before |-> Num(0)]
    /\ courseCall = [op |-> "incrementEnrollment", before |-> Num(0)]
    /\ enrollmentCount = Num(1)

(***************************************************************************)
(* Claims about the handlers                                               *)
(***************************************************************************)
\* What each path parameter tried parses to as an integer; "abc" does not.
UnparsableParams == {"abc"}
ExpectedInt(param) ==
    CASE param = "7" -> 7 [] param = "12abc" -> 12 [] param = "-7" -> 0 - 7
      [] param = "0x1f" -> 31 [] param = " 8" -> 8

CallsTo(fn) == {k \in 1..Len(calls) : calls[k].fn = fn}
HasUserId(user) == user.present /\ user.id # ""

\* C3: in POST /api/courses/:id/reset-progress the reset runs only for a
\* request with a user id whose access check returned true; no user id gives
\* 401 with neither call made; a false access check gives 403 and no reset; a
\* successful reset gives {success: true}; a throwing access check or reset
\* gives 500.
C3_ResetProgress ==
    hCall.handler = "resetProgress" =>
      LET user == hCall.user
          access == hCall.access
          reset == hCall.reset
          granted == ~access.threw /\ access.value
      IN /\ Len(resps) = 1
         /\ CallsTo("resetUserCourseProgress") # {} =>
               /\ HasUserId(user) /\ granted
               /\ Len(calls) = 2
               /\ calls[1].fn = "canUserAccessCourse"
               /\ calls[2].args[1] = <<user.id>>
         /\ ~HasUserId(user) => (resps[1].status = 401 /\ calls = <<>>)
         /\ (HasUserId(user) /\ ~access.threw /\ ~access.value) =>
               (resps[1].status = 403 /\ CallsTo("resetUserCourseProgress") = {})
         /\ (HasUserId(user) /\ granted /\ ~reset.threw) =>
               (resps[1] = Resp(200, [success |-> TRUE])
                  /\ Cardinality(CallsTo("resetUserCourseProgress")) = 1)
         /\ (HasUserId(user) /\ (access.threw \/ (granted /\ reset.threw))) =>
               resps[1].status = 500

\* An identified user whose access check answered false has been refused.
C3_Witness ==
    /\ hCall.handler = "resetProgress"
    /\ hCall.user = User("64b1", "user")
    /\ hCall.access = Returned(FALSE)
    /\ resps = <<Resp(403, Message("Access denied"))>>
    /\ Len(calls) = 1

\* C4: in DELETE /api/problem-set-enrollments/:enrollmentId a parameter that
\* does not parse to an integer gives 400 and no storage call; otherwise the
\* storage delete is called exactly once with the parsed id, and the response
\* is 200 {message: 'Enrollment deleted'} when it returns, 404 when it throws
\* an error whose message contains 'not found', 500 for any other error;
\* exactly one response is sent.
C4_DeleteEnrollment ==
    hCall.handler = "deleteEnrollment" =>
      LET param == hCall.param
          outcome == hCall.outcome
      IN /\ Len(resps) = 1
         /\ IF param \in UnparsableParams
            THEN resps[1].status = 400 /\ calls = <<>>
            ELSE /\ calls = <<[fn |-> "deleteProblemSetEnrollment",
                               args |-> <<Finite(ExpectedInt(param))>>]>>
                 /\ IF ~outcome.threw
                    THEN resps[1] = Resp(200, Message("Enrollment deleted"))
                    ELSE IF outcome.message \in {"Enrollment not found", "not found"}
                    THEN resps[1].status = 404
                    ELSE resps[1].status = 500

\* A delete whose parameter has trailing text was passed on as 12, and the
\* storage's 'not found' error became a 404.
C4_Witness ==
    /\ hCall.handler = "deleteEnrollment"
    /\ hCall.param = "12abc"
    /\ hCall.outcome = Threw("Enrollment not found")
    /\ resps = <<Resp(404, Message("Enrollment not found"))>>
    /\ Len(calls) = 1

\* C5: in PATCH /api/problem-set-enrollments/:enrollmentId a parameter that
\* does not parse to an integer gives 400 with no enrollment read or changed;
\* no enrollment with the parsed id gives 404 with none changed; otherwise
\* exactly the enrollment with that id gets the body's fields, its updatedAt
\* is the current time whatever the body says, and the updated record is
\* returned; a storage error gives 500.
C5_PatchEnrollment ==
    [][ hCall'.handler = "patchEnrollment" =>
        LET param == hCall'.param
            body == hCall'.body
            outcome == hCall'.outcome
            hits == {k \in 1..Len(enrollments) :
                        param \notin UnparsableParams /\ enrollments[k].id = ExpectedInt(param)}
        IN /\ Len(resps') = 1
           /\ IF param \in UnparsableParams
              THEN resps'[1].status = 400 /\ calls' = <<>> /\ enrollments' = enrollments
              ELSE IF outcome.threw
              THEN resps'[1].status = 500 /\ enrollments' = enrollments
              ELSE IF hits = {}
              THEN resps'[1].status = 404 /\ enrollments' = enrollments
              ELSE /\ Len(enrollments') = Len(enrollments)
                   /\ \E k \in hits :
                        /\ \A j \in 1..Len(enrollments) \ {k} : enrollments'[j] = enrollments[j]
                        /\ enrollments'[k].updatedAt = Now
                        /\ \A f \in DOMAIN body \ {"updatedAt"} : enrollments'[k][f] = body[f]
                        /\ \A f \in DOMAIN enrollments[k] \ (DOMAIN body \cup {"updatedAt"}) :
                              enrollments'[k][f] = enrollments[k][f]
                        /\ resps'[1] = Resp(200, enrollments'[k])
      ]_vars

\* A patch whose body carried its own updatedAt has updated one of two
\* enrollments: the record returned is stamped with the current time and the
\* other enrollment is as it was.
C5_Witness ==
    /\ hCall.handler = "patchEnrollment"
    /\ hCall.body = [status |-> "done", updatedAt |-> 0]
    /\ Len(enrollments) = 2
    /\ Len(resps) = 1
    /\ resps[1].status = 200
    /\ resps[1].body.updatedAt = Now
    /\ resps[1].body.status = "done"
    /\ \E k \in 1..2 : enrollments[k] = resps[1].body
    /\ \E k \in 1..2 : enrollments[k].updatedAt = 0 /\ enrollments[k].status = "active"

\* The strings under which problem set ps can be found, and the strings user
\* id u is enrolled under: the problemSetId of each enrollment record of u,
\* and the id (or the _id when there is no id) of each set listing u.
KeysOf(ps) == {String(ps.id), String(ps._id)}
EnrolledKeys(u) ==
    {String(e.problemSetId) : e \in {d \in Elements(enrollments) : d.userId = u}}
    \cup {String(IF q.id = UndefV THEN q._id ELSE q.id) :
            q \in {d \in Elements(problemSets) :
                     \E p \in Elements(d.participants) : p.v = u}}

UnderApi(path) == Len(path) >= 1 /\ path[1] = "api"

NotFoundAnswer == <<Resp(404, Message("Not Found"))>>

\* Requests that a route written out in registerRoutes or in the submissions
\* router takes, whatever the routers mounted before it do.
RoutedRequests ==
    { <<"GET", <<"api", "submissions">>>>, <<"POST", <<"api", "submissions">>>>,
      <<"DELETE", <<"api", "submissions", "7">>>>,
      <<"POST", <<"api", "courses", "7", "reset-progress">>>>,
      <<"GET", <<"api", "problem-sets-with-enrollment">>>>,
      <<"DELETE", <<"api", "problem-set-enrollments", "7">>>>,
      <<"PATCH", <<"api", "problem-set-enrollments", "abc">>>> }

EarlierNames == {EarlierLayers[k].name : k \in 1..Len(EarlierLayers)}

\* C1: a finished request under /api was answered by a layer registered
\* before the fallback or by the fallback, never by Express's own final
\* handler; when no earlier layer answered it, the fallback answered, with
\* status 404 and the body {message: 'Not Found'}; and the fallback answered
\* only requests that every earlier layer mounted on their path had been
\* offered and had passed on, none of which had a route taking the request.
C1_FallbackLast ==
    phase = "done" =>
      /\ UnderApi(req.path) => answeredBy \in EarlierNames \cup {<<"fallback">>}
      /\ (UnderApi(req.path) /\ answeredBy \notin EarlierNames) =>
            answeredBy = <<"fallback">> /\ resps = NotFoundAnswer
      /\ answeredBy = <<"fallback">> =>
            /\ UnderApi(req.path)
            /\ resps = NotFoundAnswer
            /\ calls = <<>>
            /\ <<req.method, req.path>> \notin RoutedRequests
            /\ \A k \in 1..Len(EarlierLayers) :
                 LET layer == EarlierLayers[k]
                 IN MountMatches(layer, req.path) =>
                      /\ layer.name \in passed
                      /\ layer.kind = "routes" =>
                           \A j \in 1..Len(layer.routes) :
                              ~RouteMatches(layer, layer.routes[j], req.method, req.path)

\* A request below the submissions mount that no route of the router takes
\* passed the maintenance routes and the router and got the fallback's 404.
C1_Witness ==
    /\ phase = "done"
    /\ req.path = <<"api", "submissions", "7", "x">>
    /\ answeredBy = <<"fallback">>
    /\ resps = NotFoundAnswer
    /\ {<<"maintenance">>, <<"api", "submissions">>} \subseteq passed

EnrollmentHandlers == {"deleteEnrollment", "patchEnrollment"}

\* C6: when the body of a submissions controller runs, protect has called
\* next before it; when the body of the DELETE or PATCH enrollment handler
\* runs, protect has called next and after it requireAdmin has called next,
\* both before the body; and when a middleware answered the request itself,
\* no handler body ran and no storage call was made.
C6_AuthBeforeHandler ==
    /\ \A i \in 1..Len(events) :
         (events[i].did = "body" /\ events[i].h \in SubmissionControllers) =>
            \E j \in 1..(i - 1) : events[j] = Event("protect", "next")
    /\ \A i \in 1..Len(events) :
         (events[i].did = "body" /\ events[i].h \in EnrollmentHandlers) =>
            \E j \in 1..(i - 1), k \in 1..(i - 1) :
               /\ j < k
               /\ events[j] = Event("protect", "next")
               /\ events[k] = Event("requireAdmin", "next")
    /\ (\E i \in 1..Len(events) : events[i].did = "sent") =>
         /\ calls = <<>>
         /\ \A i \in 1..Len(events) : events[i].did # "body"
    /\ calls # <<>> => \E i \in 1..Len(events) : events[i].did = "body"

\* DELETE /api/problem-set-enrollments/7: both middlewares passed the
\* request on, the handler ran and called the storage.
C6_Witness ==
    /\ phase = "done"
    /\ events = <<Event("protect", "next"), Event("requireAdmin", "next"),
                  Event("deleteEnrollment", "body")>>
    /\ Len(calls) = 1
    /\ resps[1].status = 200

\* PATCH stopped by requireAdmin after protect passed it on.
C6_WitnessStopped ==
    /\ phase = "done"
    /\ req.method = "PATCH"
    /\ events = <<Event("protect", "next"), Event("requireAdmin", "sent")>>
    /\ resps[1].status = 403
    /\ calls = <<>>

\* C11: once both handlers' saves have completed, the stored enrollmentCount
\* is 2 higher than it was before either handler loaded the course (an unset
\* count counting as 0).
C11_NoLostIncrement ==
    (\A h \in Handlers : hpc[h] = "saved") =>
        storedCount = Num(OrZero(startCount) + 2)

\* Both handlers have saved and one increment is lost.
C11_LostIncrement ==
    /\ \A h \in Handlers : hpc[h] = "saved"
    /\ storedCount = Num(OrZero(startCount) + 1)

\* Both handlers have saved, one after the other, and both increments count.
C11_BothCount ==
    /\ \A h \in Handlers : hpc[h] = "saved"
    /\ storedCount = Num(OrZero(startCount) + 2)

====
